---- MODULE Spec2Model ----
(***************************************************************************)
(* Model of Bio_Util.cpp: the two-phase FASTA pipeline.                    *)
(*   phase 1  getIndicies / processChunks : numThreads scanning threads    *)
(*            append the offsets of '>' bytes to the shared vector         *)
(*            `indicies` under the mutex `mute`; the main thread joins     *)
(*            them, appends `size` and sorts.                              *)
(*   phase 2  stageCollections / getDescription / collectCounts /          *)
(*            printStats : the main thread launches waves of counting      *)
(*            threads, each tallies its byte range and writes its table    *)
(*            to `ofile` under `mute`.                                     *)
(* Offsets are 0-based as in the source; At and Idx convert to TLA+'s      *)
(* 1-based sequences.                                                      *)
(***************************************************************************)
EXTENDS Integers, Sequences, FiniteSets, TLC

\* ---------------------------------------------------------------- bounds
MaxLen == 3
MaxW == 2
MaxLiveLen == 2

\* ---------------------------------------------------------------- bytes
\* "x" stands for every byte that is none of '>', '\n', 'G','C','A','T','N'
Bytes == {">", "\n", "G", "C", "A", "T", "N", "x"}

RECURSIVE SeqsUpTo(_, _)
SeqsUpTo(S, n) ==
    IF n = 0 THEN {<<>>}
    ELSE LET shorter == SeqsUpTo(S, n - 1)
         IN  shorter \cup {Append(s, b) : s \in {q \in shorter : Len(q) = n - 1}, b \in S}

Files == SeqsUpTo(Bytes, MaxLen)

VARIABLES
    mem,          \* the mapped file (immutable)
    numThreads,   \* global worker count
    pc,           \* position of the main thread
    indicies,     \* the shared boundary vector
    mute,         \* the global mutex: 0 = free, k = held by thread k
    chunk,        \* getIndicies: launch-loop variable
    scanners,     \* getIndicies: the `threads` vector of processChunks threads
    i,            \* stageCollections: outer loop variable
    t,            \* stageCollections: inner loop variable
    threadsUsed,  \* stageCollections: threads launched in this wave
    threads,      \* stageCollections: the `threads` vector of collectCounts threads
    joined,       \* number of threads of the current vector already joined
    ofile,        \* the output stream: sequence of written pieces
    launched,     \* history: record indices for which a counting thread was launched
    run,          \* 1 for the first execution of the program, 2 for a second one
    firstW,       \* worker count of the first execution
    firstResults  \* multiset of results of the first execution

vars == <<mem, numThreads, pc, indicies, mute, chunk, scanners, i, t,
          threadsUsed, threads, joined, ofile, launched, run, firstW, firstResults>>

size == Len(mem)

At(m, k) == m[k + 1]
Idx(v, k) == v[k + 1]

\* ------------------------------------------------------------ phase 1
\* variant: chunkSize is size / numThreads rounded up
ChunkSizeCeil(sz, w) == (sz + w - 1) \div w

\* getIndicies: chunkSize = size / numThreads (integer division)
ChunkSize(sz, w) == sz \div w

ChunkStart(c, sz, w) == c * ChunkSize(sz, w)

\* variant: every chunk, the last one too, ends at start + chunkSize
ChunkEndNoRemainder(c, sz, w) == ChunkStart(c, sz, w) + ChunkSize(sz, w)

\* variant: the last chunk is given an inclusive end, size + 1 as its bound
ChunkEndOnePast(c, sz, w) ==
    IF c = w - 1 THEN sz + 1 ELSE ChunkStart(c, sz, w) + ChunkSize(sz, w)

\* getIndicies: end = (chunk == numThreads - 1) ? size : start + chunkSize
ChunkEnd(c, sz, w) ==
    IF c = w - 1 THEN sz ELSE ChunkStart(c, sz, w) + ChunkSize(sz, w)

\* processChunks: the test mem[i] == '>'
IsMarker(b) == b = ">"

\* variant: the lock_guard is missing, a thread enters whoever holds the mutex
CanLockAlways(m) == TRUE

\* std::lock_guard<std::mutex> lock(mute): may proceed only when the mutex is free
CanLock(m) == m = 0

\* vector::push_back split in its two halves: the end position n is read,
\* then the element is stored at n and the length becomes n + 1
PushAt(vec, n, v) == SubSeq(vec, 1, n) \o <<v>>

\* variant: the comparator is written the other way round
LessDescending(a, b) == a > b

\* the comparator of std::sort in getIndicies
Less(a, b) == a < b

RECURSIVE Insert(_, _)
Insert(v, s) ==
    IF s = <<>> THEN <<v>>
    ELSE IF Less(Head(s), v) THEN <<Head(s)>> \o Insert(v, Tail(s))
    ELSE <<v>> \o s

RECURSIVE SortAsc(_)
SortAsc(s) == IF s = <<>> THEN <<>> ELSE Insert(Head(s), SortAsc(Tail(s)))

\* variant: join returns without waiting for the thread to finish
JoinableAlways(th) == TRUE

\* std::thread::join returns once the thread has finished
Joinable(th) == th.pc = "done"

\* getIndicies, launch loop: one processChunks thread per chunk
LaunchScanner ==
    /\ pc = "launchScan"
    /\ chunk < numThreads
    /\ scanners' = Append(scanners,
                     [pc  |-> "scan",
                      start |-> ChunkStart(chunk, size, numThreads),
                      i   |-> ChunkStart(chunk, size, numThreads),
                      end |-> ChunkEnd(chunk, size, numThreads),
                      n   |-> 0])
    /\ chunk' = chunk + 1
    /\ pc' = IF chunk + 1 < numThreads THEN "launchScan" ELSE "joinScan"
    /\ UNCHANGED <<mem, numThreads, indicies, mute, i, t, threadsUsed, threads,
                   joined, ofile, launched, run, firstW, firstResults>>

\* processChunks: loop test and the marker test on one byte
ScanByte(k) ==
    /\ k \in 1..Len(scanners)
    /\ scanners[k].pc = "scan"
    /\ scanners[k].i < scanners[k].end
    /\ scanners' = IF IsMarker(At(mem, scanners[k].i))
                   THEN [scanners EXCEPT ![k].pc = "lock"]
                   ELSE [scanners EXCEPT ![k].i = @ + 1]
    /\ UNCHANGED <<mem, numThreads, pc, indicies, mute, chunk, i, t, threadsUsed,
                   threads, joined, ofile, launched, run, firstW, firstResults>>

\* processChunks: the loop ends, the thread finishes
ScanExit(k) ==
    /\ k \in 1..Len(scanners)
    /\ scanners[k].pc = "scan"
    /\ scanners[k].i >= scanners[k].end
    /\ scanners' = [scanners EXCEPT ![k].pc = "done"]
    /\ UNCHANGED <<mem, numThreads, pc, indicies, mute, chunk, i, t, threadsUsed,
                   threads, joined, ofile, launched, run, firstW, firstResults>>

\* processChunks: enter the critical section, push_back reads the end position
ScanLock(k) ==
    /\ k \in 1..Len(scanners)
    /\ scanners[k].pc = "lock"
    /\ CanLock(mute)
    /\ mute' = k
    /\ scanners' = [scanners EXCEPT ![k].pc = "push", ![k].n = Len(indicies)]
    /\ UNCHANGED <<mem, numThreads, pc, indicies, chunk, i, t, threadsUsed,
                   threads, joined, ofile, launched, run, firstW, firstResults>>

\* processChunks: push_back stores the offset, the lock_guard releases, i++
ScanPush(k) ==
    /\ k \in 1..Len(scanners)
    /\ scanners[k].pc = "push"
    /\ indicies' = PushAt(indicies, scanners[k].n, scanners[k].i)
    /\ mute' = 0
    /\ scanners' = [scanners EXCEPT ![k].pc = "scan", ![k].i = @ + 1]
    /\ UNCHANGED <<mem, numThreads, pc, chunk, i, t, threadsUsed,
                   threads, joined, ofile, launched, run, firstW, firstResults>>

\* getIndicies: t.join() on the next thread of the vector
JoinScanner ==
    /\ pc = "joinScan"
    /\ joined < Len(scanners)
    /\ Joinable(scanners[joined + 1])
    /\ joined' = joined + 1
    /\ UNCHANGED <<mem, numThreads, pc, indicies, mute, chunk, scanners, i, t,
                   threadsUsed, threads, ofile, launched, run, firstW, firstResults>>

\* getIndicies: threads.clear(); push_back(size); std::sort; then readFile
\* enters stageCollections
FinishIndicies ==
    /\ pc = "joinScan"
    /\ joined = Len(scanners)
    /\ scanners' = <<>>
    /\ joined' = 0
    /\ indicies' = SortAsc(Append(indicies, size))
    /\ pc' = "outer"
    /\ UNCHANGED <<mem, numThreads, mute, chunk, i, t, threadsUsed, threads,
                   ofile, launched, run, firstW, firstResults>>

\* ------------------------------------------------------------ phase 2
\* an indeterminate BigInt: every value at or beyond end behaves alike, so
\* 0..sz+1 covers the outcomes of reading the uninitialized des.ending
Indeterminate(sz) == 0..(sz + 1)

\* variant: name += mem[i] is executed before the test for the line break
RECURSIVE DescLoopKeepBreak(_, _, _, _)
DescLoopKeepBreak(m, k, sz, name) ==
    IF k < sz
    THEN IF At(m, k) = "\n"
         THEN [desc |-> Append(name, At(m, k)), found |-> TRUE, ending |-> k]
         ELSE DescLoopKeepBreak(m, k + 1, sz, Append(name, At(m, k)))
    ELSE [desc |-> name, found |-> FALSE, ending |-> 0]

\* getDescription: the loop from start to size
RECURSIVE DescLoop(_, _, _, _)
DescLoop(m, k, sz, name) ==
    IF k < sz
    THEN IF At(m, k) = "\n"
         THEN [desc |-> name, found |-> TRUE, ending |-> k]
         ELSE DescLoop(m, k + 1, sz, Append(name, At(m, k)))
    ELSE [desc |-> name, found |-> FALSE, ending |-> 0]

\* getDescription: the set of Description values it can return; des.ending is
\* assigned only when a '\n' is found, otherwise it is left uninitialized
getDescription(m, start, sz) ==
    LET r == DescLoop(m, start, sz, <<>>)
    IN  IF r.found
        THEN {[desc |-> r.desc, ending |-> r.ending]}
        ELSE {[desc |-> r.desc, ending |-> e] : e \in Indeterminate(sz)}

ZeroCounts == [G |-> 0, C |-> 0, A |-> 0, T |-> 0, N |-> 0, total |-> 0]

\* variant: case 'T' increments A (a copied case left unedited)
TallyByteCopiedCase(c, b) ==
    CASE b = "G" -> [c EXCEPT !.G = @ + 1, !.total = @ + 1]
      [] b = "C" -> [c EXCEPT !.C = @ + 1, !.total = @ + 1]
      [] b = "A" -> [c EXCEPT !.A = @ + 1, !.total = @ + 1]
      [] b = "T" -> [c EXCEPT !.A = @ + 1, !.total = @ + 1]
      [] b = "N" -> [c EXCEPT !.N = @ + 1, !.total = @ + 1]
      [] OTHER   -> c

\* variant: total++ is executed for every byte, not only inside the cases
TallyByteTotalAll(c, b) ==
    CASE b = "G" -> [c EXCEPT !.G = @ + 1, !.total = @ + 1]
      [] b = "C" -> [c EXCEPT !.C = @ + 1, !.total = @ + 1]
      [] b = "A" -> [c EXCEPT !.A = @ + 1, !.total = @ + 1]
      [] b = "T" -> [c EXCEPT !.T = @ + 1, !.total = @ + 1]
      [] b = "N" -> [c EXCEPT !.N = @ + 1, !.total = @ + 1]
      [] OTHER   -> [c EXCEPT !.total = @ + 1]

\* collectCounts: the switch on one nucleotide
TallyByte(c, b) ==
    CASE b = "G" -> [c EXCEPT !.G = @ + 1, !.total = @ + 1]
      [] b = "C" -> [c EXCEPT !.C = @ + 1, !.total = @ + 1]
      [] b = "A" -> [c EXCEPT !.A = @ + 1, !.total = @ + 1]
      [] b = "T" -> [c EXCEPT !.T = @ + 1, !.total = @ + 1]
      [] b = "N" -> [c EXCEPT !.N = @ + 1, !.total = @ + 1]
      [] OTHER   -> c

\* variant: the inner loop test is t <= numThreads
InnerLoopCondInclusive(tt, w) == tt <= w

\* stageCollections: the inner loop test t < numThreads
InnerLoopCond(tt, w) == tt < w

\* variant: index = i + t + 1
RecordIndexOffByOne(ii, tt) == ii + tt + 1

\* stageCollections: index = i + t
RecordIndex(ii, tt) == ii + tt

\* variant: the outer loop test is i <= indicies.size() - 1
OuterLoopCondInclusive(ii, n) == ii <= n - 1

\* stageCollections: the outer loop test i < indicies.size() - 1
OuterLoopCond(ii, n) == ii < n - 1

\* getDescription: the offsets at which the loop reads mem
RECURSIVE DescReads(_, _, _)
DescReads(m, k, sz) ==
    IF k < sz
    THEN {k} \cup (IF At(m, k) = "\n" THEN {} ELSE DescReads(m, k + 1, sz))
    ELSE {}

\* stageCollections: the outer loop test, then threadsUsed = 0 and t = 0
StageOuter ==
    /\ pc = "outer"
    /\ IF OuterLoopCond(i, Len(indicies))
       THEN /\ threadsUsed' = 0
            /\ t' = 0
            /\ pc' = "inner"
       ELSE /\ pc' = "done"
            /\ UNCHANGED <<threadsUsed, t>>
    /\ UNCHANGED <<mem, numThreads, indicies, mute, chunk, scanners, i, threads,
                   joined, ofile, launched, run, firstW, firstResults>>

\* stageCollections: one iteration of the inner loop
StageInner ==
    /\ pc = "inner"
    /\ InnerLoopCond(t, numThreads)
    /\ LET index == RecordIndex(i, t)
       IN  IF index < Len(indicies) - 1
           THEN \E des \in getDescription(mem, Idx(indicies, index), size) :
                  /\ threads' = Append(threads,
                                  [rec  |-> index,
                                   desc |-> des.desc,
                                   pos  |-> des.ending,
                                   end  |-> Idx(indicies, index + 1),
                                   cnt  |-> ZeroCounts,
                                   pc   |-> "count"])
                  /\ threadsUsed' = threadsUsed + 1
                  /\ launched' = Append(launched, index)
           ELSE UNCHANGED <<threads, threadsUsed, launched>>
    /\ t' = t + 1
    /\ pc' = IF InnerLoopCond(t + 1, numThreads) THEN "inner" ELSE "join"
    /\ UNCHANGED <<mem, numThreads, indicies, mute, chunk, scanners, i,
                   joined, ofile, run, firstW, firstResults>>

\* collectCounts: one iteration of the counting loop
CountByte(k) ==
    /\ k \in 1..Len(threads)
    /\ threads[k].pc = "count"
    /\ threads[k].pos < threads[k].end
    /\ threads' = [threads EXCEPT
                     ![k].cnt = TallyByte(@, At(mem, threads[k].pos)),
                     ![k].pos = @ + 1]
    /\ UNCHANGED <<mem, numThreads, pc, indicies, mute, chunk, scanners, i, t,
                   threadsUsed, joined, ofile, launched, run, firstW, firstResults>>

\* collectCounts: the loop ends; printStats formats the table
CountExit(k) ==
    /\ k \in 1..Len(threads)
    /\ threads[k].pc = "count"
    /\ threads[k].pos >= threads[k].end
    /\ threads' = [threads EXCEPT ![k].pc = "lock"]
    /\ UNCHANGED <<mem, numThreads, pc, indicies, mute, chunk, scanners, i, t,
                   threadsUsed, joined, ofile, launched, run, firstW, firstResults>>

\* the text of table.str(): header text and the six numbers
Table(th) == [desc |-> th.desc, cnt |-> th.cnt]

\* printStats: enter the critical section; ofile << table.str() starts, the
\* first half of the text reaches the stream
PrintLock(k) ==
    /\ k \in 1..Len(threads)
    /\ threads[k].pc = "lock"
    /\ CanLock(mute)
    /\ mute' = k
    /\ ofile' = Append(ofile, [rec |-> threads[k].rec, part |-> 1,
                               table |-> Table(threads[k])])
    /\ threads' = [threads EXCEPT ![k].pc = "write"]
    /\ UNCHANGED <<mem, numThreads, pc, indicies, chunk, scanners, i, t,
                   threadsUsed, joined, launched, run, firstW, firstResults>>

\* printStats: the second half of the text reaches the stream, the
\* lock_guard releases, the thread finishes
PrintWrite(k) ==
    /\ k \in 1..Len(threads)
    /\ threads[k].pc = "write"
    /\ mute' = 0
    /\ ofile' = Append(ofile, [rec |-> threads[k].rec, part |-> 2,
                               table |-> Table(threads[k])])
    /\ threads' = [threads EXCEPT ![k].pc = "done"]
    /\ UNCHANGED <<mem, numThreads, pc, indicies, chunk, scanners, i, t,
                   threadsUsed, joined, launched, run, firstW, firstResults>>

\* stageCollections: th.join() on the next thread of the vector
StageJoin ==
    /\ pc = "join"
    /\ joined < Len(threads)
    /\ Joinable(threads[joined + 1])
    /\ joined' = joined + 1
    /\ UNCHANGED <<mem, numThreads, pc, indicies, mute, chunk, scanners, i, t,
                   threadsUsed, threads, ofile, launched, run, firstW, firstResults>>

\* stageCollections: threads.clear(); i += threadsUsed
StageClear ==
    /\ pc = "join"
    /\ joined = Len(threads)
    /\ threads' = <<>>
    /\ joined' = 0
    /\ i' = i + threadsUsed
    /\ pc' = "outer"
    /\ UNCHANGED <<mem, numThreads, indicies, mute, chunk, scanners, t,
                   threadsUsed, ofile, launched, run, firstW, firstResults>>

\* ------------------------------------------------------------ results
\* the k-th block of the output stream
Block(s, k) == s[2 * k].table

NumBlocks(s) == Len(s) \div 2

\* the multiset of (header text, G, C, A, T, N, total) in a stream
ResultBag(s) ==
    [b \in {Block(s, k) : k \in 1..NumBlocks(s)} |->
        Cardinality({k \in 1..NumBlocks(s) : Block(s, k) = b})]

\* main: the program is executed a second time on the same file; out.txt is
\* truncated and all state starts afresh
Rerun ==
    /\ pc = "done"
    /\ run = 1
    /\ \E w \in 1..MaxW : numThreads' = w
    /\ run' = 2
    /\ firstW' = numThreads
    /\ firstResults' = ResultBag(ofile)
    /\ pc' = "launchScan"
    /\ indicies' = <<>>
    /\ chunk' = 0
    /\ i' = 0
    /\ t' = 0
    /\ threadsUsed' = 0
    /\ ofile' = <<>>
    /\ launched' = <<>>
    /\ UNCHANGED <<mem, mute, scanners, threads, joined>>

\* ------------------------------------------------------------ specification
Init ==
    /\ mem \in Files
    /\ numThreads \in 1..MaxW
    /\ pc = "launchScan"
    /\ indicies = <<>>
    /\ mute = 0
    /\ chunk = 0
    /\ scanners = <<>>
    /\ i = 0
    /\ t = 0
    /\ threadsUsed = 0
    /\ threads = <<>>
    /\ joined = 0
    /\ ofile = <<>>
    /\ launched = <<>>
    /\ run = 1
    /\ firstW = 0
    /\ firstResults = <<>>

Next ==
    \/ LaunchScanner
    \/ \E k \in 1..MaxW + 1 : ScanByte(k)
    \/ \E k \in 1..MaxW + 1 : ScanExit(k)
    \/ \E k \in 1..MaxW + 1 : ScanLock(k)
    \/ \E k \in 1..MaxW + 1 : ScanPush(k)
    \/ JoinScanner
    \/ FinishIndicies
    \/ StageOuter
    \/ StageInner
    \/ \E k \in 1..MaxW + 1 : CountByte(k)
    \/ \E k \in 1..MaxW + 1 : CountExit(k)
    \/ \E k \in 1..MaxW + 1 : PrintLock(k)
    \/ \E k \in 1..MaxW + 1 : PrintWrite(k)
    \/ StageJoin
    \/ StageClear

Spec == Init /\ [][Next]_vars

\* the files of the termination check
InitLive ==
    /\ Init
    /\ Len(mem) <= MaxLiveLen

\* the operating system keeps scheduling: while some thread can take a step,
\* a step is eventually taken
SpecLive == InitLive /\ [][Next]_vars /\ WF_vars(Next)

NextRerun == Next \/ Rerun

SpecRerun == Init /\ [][NextRerun]_vars

\* ------------------------------------------------------------ properties
Range(f) == {f[x] : x \in DOMAIN f}

MinOf(S) == CHOOSE x \in S : \A y \in S : x <= y

\* offsets of the '>' bytes of a file
Markers(m) == {k \in 0..(Len(m) - 1) : m[k + 1] = ">"}

\* number of bytes equal to b at the offsets lo..hi-1
Occ(m, b, lo, hi) == Cardinality({k \in lo..(hi - 1) : m[k + 1] = b})

\* the bytes at the offsets lo..hi-1
BytesOf(m, lo, hi) == [j \in 1..(hi - lo) |-> m[lo + j]]

\* offsets of the line breaks at or after offset b
BreaksFrom(m, b) == {k \in b..(Len(m) - 1) : m[k + 1] = "\n"}

\* offset of the first line break at or after b, the file size when there is none
LineEnd(m, b) == IF BreaksFrom(m, b) = {} THEN Len(m) ELSE MinOf(BreaksFrom(m, b))

\* the boundary list is complete once getIndicies has returned
Scanned == pc \notin {"launchScan", "joinScan"}

\* every (record index, header text, counts) the program holds: the live
\* counting threads and the pieces written to the stream
Units ==
    {[rec |-> threads[k].rec, desc |-> threads[k].desc, cnt |-> threads[k].cnt,
      final |-> threads[k].pc # "count"] : k \in 1..Len(threads)}
    \cup {[rec |-> ofile[j].rec, desc |-> ofile[j].table.desc,
           cnt |-> ofile[j].table.cnt, final |-> TRUE] : j \in 1..Len(ofile)}

\* C1: once getIndicies has returned, the boundary list holds the offset of
\* every '>' byte exactly once, plus the sentinel size, and nothing else
C1_ExactMarkers ==
    Scanned =>
        /\ Range(indicies) = Markers(mem) \cup {size}
        /\ Len(indicies) = Cardinality(Markers(mem)) + 1

\* C1 witness: two scanning threads each found a marker in their own chunk
C1_Witness ==
    /\ pc = "outer"
    /\ numThreads = 2
    /\ \E a \in Markers(mem) : a < ChunkSize(size, 2)
    /\ \E b \in Markers(mem) : b >= ChunkSize(size, 2)
    /\ Len(indicies) >= 3

\* C2: once getIndicies has returned, the boundary list is strictly ascending
\* and its last element is the file size
C2_StrictlyAscending ==
    Scanned =>
        /\ \A j \in 1..(Len(indicies) - 1) : indicies[j] < indicies[j + 1]
        /\ indicies[Len(indicies)] = size

\* C2 witness: a sorted list of three markers and the sentinel, two workers
C2_Witness ==
    /\ pc = "outer"
    /\ numThreads >= 2
    /\ Len(indicies) = 4
    /\ indicies[4] = size

\* the header line of record r ends with a line break before the next boundary
BreakBeforeNext(r) == LineEnd(mem, Idx(indicies, r)) < Idx(indicies, r + 1)

\* C3: for a record whose header line ends with a line break before the next
\* boundary, the final G, C, A, T, N counts are the numbers of those bytes
\* from the line break up to the next boundary
C3_CountsMatch ==
    \A u \in Units :
        (u.final /\ BreakBeforeNext(u.rec)) =>
            LET lo == LineEnd(mem, Idx(indicies, u.rec))
                hi == Idx(indicies, u.rec + 1)
            IN  /\ u.cnt.G = Occ(mem, "G", lo, hi)
                /\ u.cnt.C = Occ(mem, "C", lo, hi)
                /\ u.cnt.A = Occ(mem, "A", lo, hi)
                /\ u.cnt.T = Occ(mem, "T", lo, hi)
                /\ u.cnt.N = Occ(mem, "N", lo, hi)

\* C3 witness: a written block of such a record whose range holds the line
\* break, which is skipped, and a 'T', which is counted
C3_Witness ==
    \E j \in 1..Len(ofile) :
        /\ BreakBeforeNext(ofile[j].rec)
        /\ ofile[j].table.cnt.T = 1
        /\ ofile[j].table.cnt.total = 1
        /\ Idx(indicies, ofile[j].rec + 1) - LineEnd(mem, Idx(indicies, ofile[j].rec)) = 2

\* C4: total = G + C + A + T + N at every step of every counting loop and in
\* every block written
C4_TotalIsSum ==
    \A u \in Units :
        u.cnt.total = u.cnt.G + u.cnt.C + u.cnt.A + u.cnt.T + u.cnt.N

\* C4 witness: a counting loop, not yet left, that has passed a line break
\* and counted a symbol
C4_Witness ==
    \E k \in 1..Len(threads) :
        /\ threads[k].pc = "count"
        /\ threads[k].cnt.total >= 1
        /\ \E q \in 0..(threads[k].pos - 1) : At(mem, q) = "\n"

\* C5: a second execution with a different worker count writes the same
\* multiset of results as the first
C5_SameForEveryWorkerCount ==
    (run = 2 /\ pc = "done" /\ numThreads # firstW) =>
        ResultBag(ofile) = firstResults

\* C6: a second execution with the same worker count writes the same multiset
\* of results as the first
C6_SameForEveryRun ==
    (run = 2 /\ pc = "done" /\ numThreads = firstW) =>
        ResultBag(ofile) = firstResults

\* C7: the output stream is a concatenation of whole blocks; a block begun and
\* not yet complete is the last thing in the stream and its writer is inside
\* the critical section
C7_WholeBlocks ==
    \A j \in 1..Len(ofile) :
        IF j % 2 = 1
        THEN /\ ofile[j].part = 1
             /\ j = Len(ofile) =>
                  \E k \in 1..Len(threads) :
                      /\ threads[k].pc = "write"
                      /\ threads[k].rec = ofile[j].rec
                      /\ mute = k
        ELSE /\ ofile[j].part = 2
             /\ ofile[j].rec = ofile[j - 1].rec
             /\ ofile[j].table = ofile[j - 1].table

\* C7 witness: one worker is in the middle of its block while another worker
\* of the same wave waits for the lock
C7_Witness ==
    /\ Len(ofile) % 2 = 1
    /\ \E k1, k2 \in 1..Len(threads) :
          /\ threads[k1].pc = "write"
          /\ threads[k2].pc = "lock"

\* C8: counting units are launched for the records 0, 1, 2, ... in turn, one
\* each, for the pair (list[r], list[r+1]); when the dispatcher returns every
\* record 0..n-2 has been launched and has exactly one block in the output
C8_EachRecordOnce ==
    /\ \A j \in 1..Len(launched) : launched[j] = j - 1
    /\ \A k \in 1..Len(threads) :
          threads[k].end = Idx(indicies, threads[k].rec + 1)
    /\ pc = "done" =>
          /\ Len(launched) = Len(indicies) - 1
          /\ NumBlocks(ofile) = Len(indicies) - 1
          /\ \A r \in 0..(Len(indicies) - 2) :
                Cardinality({j \in 1..Len(ofile) :
                               ofile[j].part = 2 /\ ofile[j].rec = r}) = 1

\* C8 witness: the dispatcher has returned after three records with two
\* workers (a full wave and a wave of one)
C8_Witness ==
    /\ pc = "done"
    /\ numThreads = 2
    /\ Len(indicies) = 4
    /\ NumBlocks(ofile) = 3

\* C9: the number of counting threads launched and not yet joined never
\* exceeds the worker count
C9_InFlightBounded == Len(threads) - joined <= numThreads

\* C9 witness: a full wave of two running threads while a further record waits
C9_Witness ==
    /\ numThreads = 2
    /\ Len(threads) = 2
    /\ joined = 0
    /\ threads[1].pc # "done"
    /\ threads[2].pc # "done"
    /\ Len(indicies) = 4

\* C10 as stated: the header text of record r is the bytes from list[r] up to
\* the first line break or list[r+1], whichever comes first
C10_HeaderStopsAtNextBoundary ==
    \A u \in Units :
        LET b == Idx(indicies, u.rec)
            e == Idx(indicies, u.rec + 1)
            stop == IF LineEnd(mem, b) < e THEN LineEnd(mem, b) ELSE e
        IN  u.desc = BytesOf(mem, b, stop)

\* C10 amended: the header text of record r is the bytes from list[r] up to
\* the first line break or the end of the file, whichever comes first
C10_HeaderStopsAtLineEnd ==
    \A u \in Units :
        LET b == Idx(indicies, u.rec)
        IN  u.desc = BytesOf(mem, b, LineEnd(mem, b))

\* C10 witness: a header line that holds a second '>' and ends with a line
\* break; the header text written runs past the next boundary
C10_Witness ==
    \E j \in 1..Len(ofile) :
        LET b == Idx(indicies, ofile[j].rec)
            e == Idx(indicies, ofile[j].rec + 1)
        IN  /\ e < LineEnd(mem, b)
            /\ LineEnd(mem, b) < size
            /\ Len(ofile[j].table.desc) > e - b

\* C11: a record with no line break between its marker and the next boundary
\* has an empty body range and reports G = C = A = T = N = total = 0
C11_NoBreakAllZero ==
    \A u \in Units :
        (u.final /\ ~BreakBeforeNext(u.rec)) => u.cnt = ZeroCounts

\* C19: every counting unit runs on a range with start <= end <= size (the
\* loop position starts at start and never passes end)
C19_TallyPrecondition ==
    \A k \in 1..Len(threads) :
        /\ threads[k].pos <= threads[k].end
        /\ threads[k].end <= size

\* offsets of the bytes on a header line: from a marker up to its line break
OnHeaderLine(m) ==
    {k \in 0..(Len(m) - 1) : \E b \in Markers(m) : b <= k /\ k <= LineEnd(m, b)}

\* offsets of the G/C/A/T/N bytes after the first marker and not on a header line
BodySymbols(m) ==
    {k \in 0..(Len(m) - 1) :
        /\ m[k + 1] \in {"G", "C", "A", "T", "N"}
        /\ \E b \in Markers(m) : b < k
        /\ k \notin OnHeaderLine(m)}

RECURSIVE SumTotals(_)
SumTotals(s) ==
    IF s = <<>> THEN 0
    ELSE (IF Head(s).part = 2 THEN Head(s).table.cnt.total ELSE 0) + SumTotals(Tail(s))

\* C20: the totals of all blocks written add up to no more than the number of
\* G/C/A/T/N bytes that lie after the first marker and off the header lines
C20_TotalsWithinBodies ==
    SumTotals(ofile) <= Cardinality(BodySymbols(mem))

\* C12: every offset at which a scanning thread, getDescription or a counting
\* thread reads the file is in [0, size), and the dispatcher indexes the
\* boundary list within [0, n-1]
C12_ReadsInBounds ==
    /\ \A k \in 1..Len(scanners) :
          /\ (scanners[k].pc = "scan" /\ scanners[k].i < scanners[k].end) =>
                (0 <= scanners[k].i /\ scanners[k].i < size)
          /\ scanners[k].pc \in {"lock", "push"} =>
                (0 <= scanners[k].i /\ scanners[k].i < size)
    /\ \A k \in 1..Len(threads) :
          (threads[k].pc = "count" /\ threads[k].pos < threads[k].end) =>
              (0 <= threads[k].pos /\ threads[k].pos < size)
    /\ (pc = "inner" /\ InnerLoopCond(t, numThreads)
           /\ RecordIndex(i, t) < Len(indicies) - 1) =>
          /\ 0 <= RecordIndex(i, t)
          /\ RecordIndex(i, t) + 1 <= Len(indicies) - 1
          /\ DescReads(mem, Idx(indicies, RecordIndex(i, t)), size) \subseteq 0..(size - 1)

\* C12 witness: a counting thread about to read the file whose header had no
\* line break before the end of the file
C12_Witness ==
    \E k \in 1..Len(threads) :
        /\ threads[k].pc = "count"
        /\ threads[k].pos < threads[k].end
        /\ LineEnd(mem, Idx(indicies, threads[k].rec)) = size

\* C13: for a file without a '>' byte the boundary list has length 1, no
\* counting unit is launched, the dispatcher goes straight from its loop test
\* to its return, and nothing is written
C13_NoMarkerNoRecords ==
    (Scanned /\ Markers(mem) = {}) =>
        /\ Len(indicies) = 1
        /\ launched = <<>>
        /\ threads = <<>>
        /\ ofile = <<>>
        /\ pc \in {"outer", "done"}

\* C13 witness: the dispatcher has returned on a non-empty file without marker
C13_Witness ==
    /\ pc = "done"
    /\ size >= 2
    /\ Markers(mem) = {}

\* C15: the sub-ranges given to the scanning threads are contiguous from 0,
\* do not overlap, and once all are launched they end at size and every byte
\* of the file lies in exactly one of them
C15_ChunksPartition ==
    /\ \A k \in 1..Len(scanners) :
          /\ scanners[k].start <= scanners[k].end
          /\ k = 1 => scanners[k].start = 0
          /\ k > 1 => scanners[k].start = scanners[k - 1].end
    /\ Len(scanners) = numThreads =>
          /\ scanners[numThreads].end = size
          /\ \A b \in 0..(size - 1) :
                Cardinality({k \in 1..Len(scanners) :
                    scanners[k].start <= b /\ b < scanners[k].end}) = 1

\* C15 witness: two scanning threads launched on a file of one byte
C15_Witness ==
    /\ pc = "joinScan"
    /\ numThreads = 2
    /\ Len(scanners) = 2
    /\ size = 1

\* C16 as stated: each of the first w-1 sub-ranges has size ceil(size / w) and
\* the last one ends at size
C16_ChunksAreCeil ==
    /\ \A k \in 1..Len(scanners) :
          k < numThreads =>
              LET len == scanners[k].end - scanners[k].start
              IN  (len - 1) * numThreads < size /\ size <= len * numThreads
    /\ Len(scanners) = numThreads => scanners[numThreads].end = size

\* C16 amended: each of the first w-1 sub-ranges has size floor(size / w) and
\* the last one ends at size
C16_ChunksAreFloor ==
    /\ \A k \in 1..Len(scanners) :
          k < numThreads =>
              LET len == scanners[k].end - scanners[k].start
              IN  len * numThreads <= size /\ size < (len + 1) * numThreads
    /\ Len(scanners) = numThreads => scanners[numThreads].end = size

\* C16 witness: two scanning threads on a file of three bytes, the first
\* sub-range has one byte and the last one two
C16_Witness ==
    /\ numThreads = 2
    /\ Len(scanners) = 2
    /\ size = 3
    /\ scanners[1].end - scanners[1].start = 1
    /\ scanners[2].end - scanners[2].start = 2

\* the wave of record r
Wave(r) == r \div numThreads

\* C17: while a counting thread of some wave exists, every record of every
\* earlier wave has its whole block in the output; and in the output the
\* blocks appear in the order of their waves
C17_WaveBarrier ==
    /\ \A k \in 1..Len(threads) :
          \A r \in 0..(threads[k].rec - 1) :
              Wave(r) < Wave(threads[k].rec) =>
                  \E j \in 1..Len(ofile) : ofile[j].part = 2 /\ ofile[j].rec = r
    /\ \A j1, j2 \in 1..Len(ofile) :
          j1 < j2 => Wave(ofile[j1].rec) <= Wave(ofile[j2].rec)

\* C17 witness: with two workers the block of record 1 was written before the
\* block of record 0, and the thread of record 2 runs after both
C17_Witness ==
    /\ numThreads = 2
    /\ Len(ofile) >= 4
    /\ ofile[2].rec = 1
    /\ ofile[4].rec = 0
    /\ \E k \in 1..Len(threads) : threads[k].rec = 2 /\ threads[k].pc = "count"

\* the workers inside a critical section on mute
InCritical ==
    {k \in 1..Len(scanners) : scanners[k].pc = "push"}
    \cup {k \in 1..Len(threads) : threads[k].pc = "write"}

\* C18: at most one worker is inside a critical section, the mutex is held
\* exactly by that worker and only during its append or write, so never by a
\* worker that is reading bytes of the file
C18_LockDiscipline ==
    /\ Cardinality(InCritical) <= 1
    /\ mute = 0 => InCritical = {}
    /\ mute # 0 => InCritical = {mute}

\* C18 witness: one scanning thread is inside its append while another one is
\* reading a byte of the file
C18_Witness ==
    \E k1, k2 \in 1..Len(scanners) :
        /\ scanners[k1].pc = "push"
        /\ mute = k1
        /\ scanners[k2].pc = "scan"
        /\ scanners[k2].i < scanners[k2].end

\* C14: every execution reaches the return of the dispatcher with all threads
\* joined and the mutex free, and every wave advances the record index
C14_RunsToCompletion ==
    /\ <>(pc = "done" /\ scanners = <<>> /\ threads = <<>> /\ mute = 0)
    /\ [][(pc = "join" /\ pc' = "outer") => i' > i]_vars

\* C14 witness: the dispatcher has returned after two waves of one worker
C14_Witness ==
    /\ pc = "done"
    /\ numThreads = 1
    /\ size = 2
    /\ NumBlocks(ofile) = 2
    /\ scanners = <<>>
    /\ threads = <<>>

====
